---- MODULE Spec2Model ----
(***************************************************************************)
(* State-machine model of the sticker collector plugin (src/main.py):      *)
(* the stickers table of the SQLite file, the background schema task, the  *)
(* group-message handler auto_collect_sticker with its two suspension      *)
(* points (the provider call and the insert), and the three retrieval      *)
(* entry points send_sticker_tool, search_sticker and count_stickers.      *)
(*                                                                         *)
(* Text values are sequences of one-character strings, so that the LIKE    *)
(* patterns the code builds ("%" + argument + "%") are matched character   *)
(* by character.  Confidences are counted in tenths (0.8 is 8).            *)
(***************************************************************************)
EXTENDS Integers, Sequences, FiniteSets, TLC

VARIABLES dbTable, rows, initPending, handlers, last

vars == <<dbTable, rows, initPending, handlers, last>>

----------------------------------------------------------------------------
(* Bounds of the model *)

NumUrls == 2
MaxHandlers == 2
MaxComps == 2

(* Program constants *)

\* self.config.get("min_confidence", 0.8), in tenths
MinConfidence == 8
\* "... LIMIT 5" of the search query
SearchLimit == 5

----------------------------------------------------------------------------
(* Values *)

Urls == 1..NumUrls
Handlers == 1..MaxHandlers

\* SQL NULL / JSON null / Python None where a text is expected
Null == <<"<null>">>

\* JSON values the reply may carry under "is_sticker"
JTrue == "true"
JFalse == "false"
JStrFalse == "\"false\""
JAbsent == "absent"
JSticker == {JTrue, JFalse, JStrFalse, JAbsent}

\* JSON values the reply may carry under "confidence": a number (tenths),
\* nothing, or a string
Num(n) == [k |-> "num", v |-> n]
ConfAbsent == [k |-> "absent", v |-> 0]
ConfStr == [k |-> "str", v |-> 0]
JConfidence == {Num(MinConfidence - 1), Num(MinConfidence), Num(MinConfidence + 1),
                ConfAbsent, ConfStr}

Emotions == {<<"a">>, <<"b">>}
Descriptions == {<<"c">>}

\* The completion of provider.text_chat: an exception, a text that is not
\* JSON, JSON that is not an object, or a JSON object
Replies ==
    [kind : {"exception", "text", "array"}, is_sticker : {JAbsent},
     confidence : {ConfAbsent}, emotion : {Null}, description : {Null}]
    \cup
    [kind : {"object"}, is_sticker : JSticker, confidence : JConfidence,
     emotion : Emotions \cup {Null}, description : Descriptions \cup {Null}]

\* Message components: plain text, or an image whose url may be missing (0)
Components ==
    {[type |-> "text", url |-> 0]} \cup {[type |-> "image", url |-> u] : u \in 0..NumUrls}
Messages == UNION {[1..n -> Components] : n \in 0..MaxComps}

\* A handler slot: the coroutine started for one group message together with
\* its event.  Slot h carries the messages of sender h.
Idle ==
    [pc |-> "idle", url |-> 0, is_sticker |-> JAbsent, confidence |-> 0,
     emotion |-> Null, description |-> Null, calls |-> 0, stopped |-> FALSE,
     raised |-> FALSE, failed |-> FALSE, eligible |-> FALSE]

\* last holds what the retrieval request served by the latest step produced;
\* NoRequest after a step of any other operation
NoRequest ==
    [op |-> "none", emotion |-> <<>>, keywords |-> <<>>, replies |-> <<>>,
     raised |-> FALSE]

----------------------------------------------------------------------------
(* The stickers table *)

\* Mutant: the url column is declared without UNIQUE
ViolatesConstraintNoUnique(table, row) ==
    \/ row.emotion = Null
    \/ row.description = Null

\* url TEXT NOT NULL UNIQUE, emotion TEXT NOT NULL, description TEXT NOT NULL
ViolatesConstraint(table, row) ==
    \/ row.emotion = Null
    \/ row.description = Null
    \/ \E i \in 1..Len(table) : table[i].url = row.url

\* Mutant: INSERT OR REPLACE, which deletes the row that holds the url
InsertOrReplace(table, row) ==
    IF row.emotion = Null \/ row.description = Null THEN table
    ELSE Append(SelectSeq(table, LAMBDA r : r.url # row.url), row)

\* INSERT OR IGNORE: a row that violates a constraint is skipped silently
InsertOrIgnore(table, row) ==
    IF ViolatesConstraint(table, row) THEN table ELSE Append(table, row)

----------------------------------------------------------------------------
(* init and _init_db *)

Init ==
    /\ dbTable = FALSE
    /\ rows = <<>>
    /\ initPending = TRUE
    /\ handlers = [h \in Handlers |-> Idle]
    /\ last = NoRequest

\* The plugin is loaded again on the same data directory
PluginLoad ==
    /\ ~initPending
    /\ initPending' = TRUE
    /\ last' = NoRequest
    /\ UNCHANGED <<dbTable, rows, handlers>>

\* CREATE TABLE IF NOT EXISTS stickers
init_db ==
    /\ initPending
    /\ initPending' = FALSE
    /\ dbTable' = TRUE
    /\ last' = NoRequest
    /\ UNCHANGED <<rows, handlers>>

----------------------------------------------------------------------------
(* auto_collect_sticker *)

\* for comp in message: if isinstance(comp, Image): image_comp = comp; break
RECURSIVE FirstImageFrom(_, _)
FirstImageFrom(msg, i) ==
    IF i > Len(msg) THEN [type |-> "none", url |-> 0]
    ELSE IF msg[i].type = "image" THEN msg[i]
    ELSE FirstImageFrom(msg, i + 1)

FirstImage(msg) == FirstImageFrom(msg, 1)

\* The preconditions as the specification words them
HasImageWithUrl(msg) == \E i \in 1..Len(msg) : msg[i].type = "image" /\ msg[i].url \in Urls
Eligible(enabled, msg, provider) == enabled /\ HasImageWithUrl(msg) /\ provider

\* finally: event.stop_event()
Finally(e) ==
    [Idle EXCEPT !.pc = "done", !.calls = e.calls, !.eligible = e.eligible,
                 !.failed = e.failed, !.raised = e.raised, !.stopped = TRUE]

\* except json.JSONDecodeError / except Exception: log, then finally
Caught(e) == Finally([e EXCEPT !.failed = TRUE])

\* The handler up to its first suspension: the three early returns, then
\* await provider.text_chat(image_urls=[image_comp.url])
StartHandler(enabled, msg, provider) ==
    LET image_comp == FirstImage(msg)
        e == [Idle EXCEPT !.eligible = Eligible(enabled, msg, provider)]
    IN  IF ~enabled THEN [e EXCEPT !.pc = "done"]
        ELSE IF image_comp.type = "none" \/ image_comp.url \notin Urls
             THEN [e EXCEPT !.pc = "done"]
        ELSE IF ~provider THEN [e EXCEPT !.pc = "done"]
        ELSE [e EXCEPT !.pc = "awaiting", !.url = image_comp.url, !.calls = e.calls + 1]

\* What the handler can do with a message, over every configuration, message
\* and provider state
StartResults ==
    {StartHandler(enabled, msg, provider) :
        enabled \in BOOLEAN, msg \in Messages, provider \in BOOLEAN}

auto_collect_start(h) ==
    /\ handlers[h].pc \in {"idle", "done"}
    /\ \E e \in StartResults : handlers' = [handlers EXCEPT ![h] = e]
    /\ last' = NoRequest
    /\ UNCHANGED <<dbTable, rows, initPending>>

\* Python truth value of analysis_result.get("is_sticker", False)
Truthy(j) == j \in {JTrue, JStrFalse}

\* is_sticker and confidence >= min_confidence
Accepts(reply) == Truthy(reply.is_sticker) /\ reply.confidence.v >= MinConfidence

\* The handler from the completion of text_chat to its next suspension
ResumeHandler(e, reply) ==
    IF reply.kind # "object" THEN Caught(e)
    ELSE IF Truthy(reply.is_sticker) /\ reply.confidence.k = "str" THEN Caught(e)
    ELSE IF Accepts(reply)
         THEN [e EXCEPT !.pc = "inserting", !.is_sticker = reply.is_sticker,
                        !.confidence = reply.confidence.v,
                        !.emotion = reply.emotion, !.description = reply.description]
    ELSE Finally(e)

auto_collect_resume(h) ==
    /\ handlers[h].pc = "awaiting"
    /\ \E reply \in Replies :
         handlers' = [handlers EXCEPT ![h] = ResumeHandler(handlers[h], reply)]
    /\ last' = NoRequest
    /\ UNCHANGED <<dbTable, rows, initPending>>

\* The row the handler binds to the INSERT statement
RowOf(h, e) ==
    [url |-> e.url, emotion |-> e.emotion, description |-> e.description, sender |-> h]

\* Mutant: the storage error leaves the handler, the event is not stopped
AfterInsertUncaught(e, tableExists) ==
    IF tableExists THEN Finally(e)
    ELSE [Idle EXCEPT !.pc = "done", !.calls = e.calls, !.eligible = e.eligible,
                      !.raised = TRUE]

\* The handler after the INSERT statement ran
AfterInsert(e, tableExists) == IF tableExists THEN Finally(e) ELSE Caught(e)

auto_collect_insert(h) ==
    /\ handlers[h].pc = "inserting"
    /\ rows' = IF dbTable THEN InsertOrIgnore(rows, RowOf(h, handlers[h])) ELSE rows
    /\ handlers' = [handlers EXCEPT ![h] = AfterInsert(handlers[h], dbTable)]
    /\ last' = NoRequest
    /\ UNCHANGED <<dbTable, initPending>>

----------------------------------------------------------------------------
(* SQLite's LIKE, as the three queries use it *)

\* LIKE folds the case of ASCII letters
Lower(c) == IF c = "A" THEN "a" ELSE c

\* pattern p from position i matches text t from position j:
\* "%" matches any run of characters, "_" any one character
RECURSIVE LikeFrom(_, _, _, _)
LikeFrom(p, i, t, j) ==
    IF i > Len(p) THEN j > Len(t)
    ELSE IF p[i] = "%"
         THEN LikeFrom(p, i + 1, t, j) \/ (j <= Len(t) /\ LikeFrom(p, i, t, j + 1))
    ELSE /\ j <= Len(t)
         /\ (p[i] = "_" \/ Lower(p[i]) = Lower(t[j]))
         /\ LikeFrom(p, i + 1, t, j + 1)

\* column LIKE pattern (NULL LIKE pattern is not true)
Like(text, pattern) == text # Null /\ LikeFrom(pattern, 1, text, 1)

\* f"%{arg}%"
Pattern(arg) == <<"%">> \o arg \o <<"%">>

----------------------------------------------------------------------------
(* The retrieval entry points *)

\* Arguments of the tool and of the search command
Queries == {<<"a">>, <<"A">>, <<"c">>, <<"_">>}
Keywords == {<<>>, <<"c">>, <<"a">>}

Reply(kind, url, count, items) == [kind |-> kind, url |-> url, count |-> count, items |-> items]

\* What one invocation produced: the results it yielded, and whether an
\* exception left the generator
Outcome(replies, raised) == [replies |-> replies, raised |-> raised]

\* Mutant: no except clause, the storage error leaves the generator
OnStorageErrorUncaught == Outcome(<<>>, TRUE)

\* except Exception as e: ... yield event.plain_result(<error text>)
OnStorageError == Outcome(<<Reply("error", 0, 0, {})>>, FALSE)

\* SELECT url FROM stickers WHERE emotion LIKE ? [AND description LIKE ?]
ToolMatches(table, emotion, keywords) ==
    {i \in 1..Len(table) :
        /\ Like(table[i].emotion, Pattern(emotion))
        /\ (keywords # <<>> => Like(table[i].description, Pattern(keywords)))}

\* The outcomes send_sticker_tool can have: ORDER BY RANDOM() LIMIT 1 picks
\* any of the matching rows
ToolOutcomes(tableExists, table, emotion, keywords) ==
    IF ~tableExists THEN {OnStorageError}
    ELSE IF ToolMatches(table, emotion, keywords) = {}
         THEN {Outcome(<<Reply("apology", 0, 0, {})>>, FALSE)}
    ELSE {Outcome(<<Reply("image", table[i].url, 0, {})>>, FALSE) :
             i \in ToolMatches(table, emotion, keywords)}

Served(op, emotion, keywords, outcome) ==
    [op |-> op, emotion |-> emotion, keywords |-> keywords,
     replies |-> outcome.replies, raised |-> outcome.raised]

send_sticker_tool ==
    /\ \E emotion \in Queries, keywords \in Keywords :
         \E o \in ToolOutcomes(dbTable, rows, emotion, keywords) :
            last' = Served("tool", emotion, keywords, o)
    /\ UNCHANGED <<dbTable, rows, initPending, handlers>>

\* SELECT ... WHERE description LIKE ? OR emotion LIKE ?
SearchMatches(table, keyword) ==
    {i \in 1..Len(table) :
        Like(table[i].description, Pattern(keyword)) \/ Like(table[i].emotion, Pattern(keyword))}

Min(a, b) == IF a <= b THEN a ELSE b

\* LIMIT 5 without ORDER BY: any SearchLimit of the matching rows
SearchOutcomes(tableExists, table, keyword) ==
    IF ~tableExists THEN {OnStorageError}
    ELSE IF SearchMatches(table, keyword) = {}
         THEN {Outcome(<<Reply("notfound", 0, 0, {})>>, FALSE)}
    ELSE {Outcome(<<Reply("found", 0, Cardinality(S), S)>>, FALSE) :
             S \in {T \in SUBSET SearchMatches(table, keyword) :
                      Cardinality(T) = Min(SearchLimit, Cardinality(SearchMatches(table, keyword)))}}

search_sticker ==
    /\ \E keyword \in Queries :
         \E o \in SearchOutcomes(dbTable, rows, keyword) :
            last' = Served("search", keyword, <<>>, o)
    /\ UNCHANGED <<dbTable, rows, initPending, handlers>>

\* SELECT COUNT(*) FROM stickers
CountOutcome(tableExists, table) ==
    IF ~tableExists THEN OnStorageError
    ELSE Outcome(<<Reply("count", 0, Len(table), {})>>, FALSE)

count_stickers ==
    /\ last' = Served("count", <<>>, <<>>, CountOutcome(dbTable, rows))
    /\ UNCHANGED <<dbTable, rows, initPending, handlers>>

----------------------------------------------------------------------------
(* Specifications *)

\* The collection pipeline: concurrent handlers racing with the schema task
Next ==
    \/ PluginLoad
    \/ init_db
    \/ \E h \in Handlers : auto_collect_start(h)
    \/ \E h \in Handlers : auto_collect_resume(h)
    \/ \E h \in Handlers : auto_collect_insert(h)

Spec == Init /\ [][Next]_vars

\* asyncio runs every ready coroutine: a completed provider call resumes its
\* handler, and a pending insert is executed
FairSpec ==
    /\ Spec
    /\ \A h \in Handlers : WF_vars(auto_collect_resume(h))
    /\ \A h \in Handlers : WF_vars(auto_collect_insert(h))

\* The retrieval pipeline, over the table one collecting handler fills
RetrievalHandlers == {1}

RetrievalNext ==
    \/ PluginLoad
    \/ init_db
    \/ \E h \in RetrievalHandlers : auto_collect_start(h)
    \/ \E h \in RetrievalHandlers : auto_collect_resume(h)
    \/ \E h \in RetrievalHandlers : auto_collect_insert(h)
    \/ send_sticker_tool
    \/ search_sticker
    \/ count_stickers

RetrievalSpec == Init /\ [][RetrievalNext]_vars

----------------------------------------------------------------------------
(* Vocabulary of the properties *)

\* q occurs in text as a substring, letters compared without case
ContainsCI(text, q) ==
    /\ text # Null
    /\ \E start \in 0..(Len(text) - Len(q)) :
          \A k \in 1..Len(q) : Lower(text[start + k]) = Lower(q[k])

HasRowFor(table, url) == \E i \in 1..Len(table) : table[i].url = url

\* Handler h executes its INSERT statement in this step
InsertStep(h) == handlers[h].pc = "inserting" /\ handlers'[h].pc = "done"

\* A retrieval entry point is served in this step
RetrievalStep(op) == last'.op = op

TypeOK ==
    /\ dbTable \in BOOLEAN
    /\ initPending \in BOOLEAN
    /\ \A h \in Handlers : handlers[h].pc \in {"idle", "awaiting", "inserting", "done"}
    /\ Len(rows) > 0 => dbTable

----------------------------------------------------------------------------
(* C1 *)

\* C1: every record added to the store is added by a handler whose
\* classifier reply was JSON with is_sticker true and confidence at or above
\* min_confidence.
C1_RecordsOnlyFromAcceptedVerdicts ==
    [][\A i \in 1..Len(rows') :
          i > Len(rows) =>
             \E h \in Handlers :
                /\ InsertStep(h)
                /\ rows'[i] = RowOf(h, handlers[h])
                /\ handlers[h].is_sticker = JTrue
                /\ handlers[h].confidence >= MinConfidence]_vars

----------------------------------------------------------------------------
(* C2 *)

\* C2: with the table created and the url not yet stored, the handler's
\* insert persists a record with the url and the verdict's emotion and
\* description if and only if the verdict has is_sticker == true and
\* confidence >= min_confidence, for every verdict with a boolean
\* is_sticker, null emotion or description included.
C2_PersistsIffAccepted ==
    [][\A h \in Handlers :
          (InsertStep(h) /\ dbTable /\ ~HasRowFor(rows, handlers[h].url)
              /\ handlers[h].is_sticker \in {JTrue, JFalse}) =>
             ((\E i \in 1..Len(rows') : rows'[i] = RowOf(h, handlers[h]))
                <=> (handlers[h].is_sticker = JTrue
                       /\ handlers[h].confidence >= MinConfidence))]_vars

----------------------------------------------------------------------------
(* C3 *)

UrlsUnique == \A i, j \in 1..Len(rows) : rows[i].url = rows[j].url => i = j

\* An insert of a url the table already holds changes nothing and reports no
\* error; an insert of a well-formed row for a new url adds exactly that row
InsertIsIdempotent ==
    \A h \in Handlers :
       (InsertStep(h) /\ dbTable) =>
          /\ ~handlers'[h].failed /\ ~handlers'[h].raised
          /\ HasRowFor(rows, handlers[h].url) => rows' = rows
          /\ (~HasRowFor(rows, handlers[h].url)
                /\ handlers[h].emotion # Null /\ handlers[h].description # Null)
               => rows' = Append(rows, RowOf(h, handlers[h]))

\* C3: the store never holds two records with the same url; of two accepted
\* inserts of one url, concurrent or not, one creates the row and the other
\* is a silent no-op, so the count after two equals the count after one.
C3_UrlUniqueAndInsertIdempotent == []UrlsUnique /\ [][InsertIsIdempotent]_vars

\* Handler h is about to insert a url that the other handler has stored
\* with another emotion
C3_Witness ==
    \E h, g \in Handlers :
       /\ h # g
       /\ handlers[h].pc = "inserting"
       /\ handlers[g].pc = "done" /\ handlers[g].calls = 1 /\ ~handlers[g].failed
       /\ \E i \in 1..Len(rows) :
             /\ rows[i].url = handlers[h].url
             /\ rows[i].sender = g
             /\ rows[i].emotion # handlers[h].emotion
             /\ handlers[h].emotion # Null /\ handlers[h].description # Null

----------------------------------------------------------------------------
(* C4 *)

Attempted(h) == handlers[h].pc \in {"awaiting", "inserting"}
Handled(h) ==
    handlers[h].pc = "done" /\ handlers[h].stopped /\ ~handlers[h].raised

\* A handler that called the classifier and is done has stopped its event
\* and propagated nothing
HandledWhenDone ==
    \A h \in Handlers : (handlers[h].pc = "done" /\ handlers[h].calls = 1) => Handled(h)

----------------------------------------------------------------------------
(* C5 *)

ReplyKinds(op) ==
    IF op = "tool" THEN {"image", "apology", "error"}
    ELSE IF op = "search" THEN {"found", "notfound", "error"}
    ELSE {"count", "error"}

OneReply ==
    last.op # "none" =>
       /\ Len(last.replies) = 1
       /\ ~last.raised
       /\ last.replies[1].kind \in ReplyKinds(last.op)

\* The reply just produced: the error text exactly when the table is missing,
\* otherwise the image or the apology according to the rows the query selects
ReplyFollowsStorage ==
    last.op # "none" =>
       /\ (last.replies[1].kind = "error") <=> ~dbTable
       /\ last.op = "tool" =>
            /\ last.replies[1].kind = "image" =>
                  last.replies[1].url \in
                     {rows[i].url : i \in ToolMatches(rows, last.emotion, last.keywords)}
            /\ last.replies[1].kind = "apology" =>
                  ToolMatches(rows, last.emotion, last.keywords) = {}

\* C5: every invocation of the tool, of search and of count produces exactly
\* one reply and propagates no exception: an image when a row is selected,
\* the apology when none is, the error text when the storage operation fails
\* (the table missing); the commands reply with their result or error text.
C5_RetrievalAlwaysRepliesOnce == OneReply /\ ReplyFollowsStorage

\* The count command answered with its error text: the table did not exist
C5_Witness ==
    /\ last.op = "count"
    /\ Len(last.replies) = 1
    /\ last.replies[1].kind = "error"

----------------------------------------------------------------------------
(* C6 *)

\* The rows whose emotion contains the emotion argument and, when keywords
\* is not empty, whose description contains keywords
SubstringMatches(table, emotion, keywords) ==
    {i \in 1..Len(table) :
        /\ ContainsCI(table[i].emotion, emotion)
        /\ (keywords # <<>> => ContainsCI(table[i].description, keywords))}

\* C6: the url of an image reply belongs to a stored record whose emotion
\* contains the requested emotion and whose description contains the
\* keywords when given; an image is replied whenever such a record exists
\* and the apology only when none exists.
C6_ToolReturnsOnlySubstringMatches ==
    last.op = "tool" =>
       LET r == last.replies[1]
           good == SubstringMatches(rows, last.emotion, last.keywords)
       IN  /\ r.kind = "image" => \E i \in good : rows[i].url = r.url
           /\ good # {} => r.kind = "image"
           /\ r.kind = "apology" => good = {}

----------------------------------------------------------------------------
(* C7 *)

KeywordMatches(table, keyword) ==
    {i \in 1..Len(table) :
        ContainsCI(table[i].emotion, keyword) \/ ContainsCI(table[i].description, keyword)}

\* C7: search lists at most 5 records, each with the keyword as a substring
\* of its emotion or description, states as count the number listed, which
\* is min(5, number of matching records), and replies "not found" exactly
\* when no stored record matches (stated for a store whose table exists).
C7_SearchListsSubstringMatches ==
    (last.op = "search" /\ dbTable) =>
       LET r == last.replies[1]
           good == KeywordMatches(rows, last.emotion)
       IN  /\ Cardinality(r.items) <= SearchLimit
           /\ r.items \subseteq good
           /\ r.count = Cardinality(r.items)
           /\ r.kind = "found" => r.count = Min(SearchLimit, Cardinality(good))
           /\ (r.kind = "notfound") <=> (good = {})

----------------------------------------------------------------------------
(* C8 *)

\* C8: records are immutable and never removed: every step of every
\* operation leaves each stored record as it is, so the count never
\* decreases; an accepted verdict for a stored url alters nothing and the
\* retrieval operations leave the whole store unchanged.
C8_RecordsAreImmutable ==
    [][/\ Len(rows') >= Len(rows)
       /\ \A i \in 1..Len(rows) : rows'[i] = rows[i]
       /\ \A op \in {"tool", "search", "count"} : RetrievalStep(op) => rows' = rows
       /\ \A h \in Handlers :
             (InsertStep(h) /\ HasRowFor(rows, handlers[h].url)) => rows' = rows]_vars

\* A stored record has seen a later verdict for its url with another emotion
\* about to be inserted, a plugin reload and a tool call
C8_Witness ==
    /\ initPending
    /\ last.op = "tool"
    /\ \E h \in Handlers :
          /\ handlers[h].pc = "inserting"
          /\ handlers[h].emotion # Null /\ handlers[h].description # Null
          /\ \E i \in 1..Len(rows) :
                rows[i].url = handlers[h].url /\ rows[i].emotion # handlers[h].emotion

----------------------------------------------------------------------------
(* C9 *)

\* C9: the schema task may race with the first operations: an accepted,
\* well-formed sticker is persisted and no error is reported whether or not
\* _init_db has run before the handler reaches the store.
C9_InitRaceIsSafe ==
    [][\A h \in Handlers :
          (InsertStep(h) /\ handlers[h].is_sticker = JTrue
              /\ handlers[h].emotion # Null /\ handlers[h].description # Null) =>
             (HasRowFor(rows', handlers[h].url) /\ ~handlers'[h].failed)]_vars

----------------------------------------------------------------------------
(* C10 *)

\* C10: per message the classifier is called at most once, and exactly once
\* if and only if auto-collect is enabled, the message contains an image
\* with a url and a provider is available.
C10_CalledOnceIffEligible ==
    \A h \in Handlers :
       /\ handlers[h].calls <= 1
       /\ handlers[h].pc # "idle" => (handlers[h].calls = 1 <=> handlers[h].eligible)

====
